---- MODULE Spec2Model ----
(***************************************************************************)
(* The Little Lemon restaurant backend: two persisted entities, Menu and   *)
(* Booking (restaurant/models.py), served over HTTP by the routes of        *)
(* restaurant/urls.py.  The state is the two tables with their id counters,*)
(* the last request together with its response, and (for the concurrency   *)
(* specification) the requests that are between their read and their write.*)
(***************************************************************************)
EXTENDS Integers, Sequences, FiniteSets, TLC

VARIABLES menu, menuNextId, menuDeleted, booking, bookingNextId, last, inflight

vars == <<menu, menuNextId, menuDeleted, booking, bookingNextId, last, inflight>>

(* ------------------------------ bounds -------------------------------- *)

\* how many Menu rows / Booking rows a behaviour may create
MaxMenuIds == 2
MaxBookingIds == 2
\* how many rows, of both tables together, a behaviour of EverySpec may create
MaxRows == 2

(* ------------------------- field declarations ------------------------- *)

\* Menu.title = CharField(max_length=255); Booking.name likewise
title_max_length == 255
name_max_length == 255
\* Menu.price = DecimalField(max_digits=10, decimal_places=2)
max_digits == 10
decimal_places == 2
\* Menu.inventory validators
inventory_MinValue == 0
inventory_MaxValue == 99999
\* Booking.no_of_guests validators
no_of_guests_MinValue == 1
no_of_guests_MaxValue == 6

\* A text value is its content and its length in characters.
Text(s, n) == [text |-> s, len |-> n]

\* A decimal literal: unscaled digits u and the number s of decimal places,
\* standing for u / 10^s ("5.5" is Dec(55, 1), "9.99" is Dec(999, 2)).
Dec(u, s) == [u |-> u, s |-> s]

RECURSIVE Pow10(_)
Pow10(k) == IF k = 0 THEN 1 ELSE 10 * Pow10(k - 1)

RECURSIVE Digits(_)
Digits(n) == IF n < 10 THEN 1 ELSE 1 + Digits(n \div 10)

\* the three counts DecimalField validation takes of a literal
TotalDigits(d) == IF d.s = 0 \/ Digits(d.u) > d.s THEN Digits(d.u) ELSE d.s
WholeDigits(d) == IF d.s = 0 THEN Digits(d.u)
                  ELSE IF Digits(d.u) > d.s THEN Digits(d.u) - d.s ELSE 0

\* numeric equality of two decimal literals
DecEq(a, b) == a.u * Pow10(b.s) = b.u * Pow10(a.s)

MenuFields == {"title", "price", "inventory"}
BookingFields == {"name", "no_of_guests", "BookingDate"}

\* the date-time literals a DateTimeField parses
DateTimes == {"2026-01-01T19:00"}

\* Menu.title: at most max_length characters, and not blank (blank=False)
Menu_title_valid(v) == v.len >= 1 /\ v.len <= title_max_length

\* Menu.price: at most max_digits digits, decimal_places of them decimals
Menu_price_valid(v) ==
    /\ TotalDigits(v) <= max_digits
    /\ v.s <= decimal_places
    /\ WholeDigits(v) <= max_digits - decimal_places

\* Menu.inventory: MinValueValidator(0), MaxValueValidator(99999)
\* (the two variants each drop one validator)
Menu_inventory_valid_NoMax(v) == v >= inventory_MinValue
Menu_inventory_valid_NoMin(v) == v <= inventory_MaxValue
Menu_inventory_valid(v) == v >= inventory_MinValue /\ v <= inventory_MaxValue

\* Booking.name
Booking_name_valid(v) == v.len >= 1 /\ v.len <= name_max_length

\* Booking.no_of_guests: MinValueValidator(1), MaxValueValidator(6)
\* (the variant drops the upper validator)
Booking_no_of_guests_valid_NoMax(v) == v >= no_of_guests_MinValue
Booking_no_of_guests_valid(v) ==
    v >= no_of_guests_MinValue /\ v <= no_of_guests_MaxValue

\* Booking.BookingDate
Booking_BookingDate_valid(v) == v \in DateTimes

\* No field of Menu declares a default, null=True or blank=True: all required.
\* (the variant: inventory declared with a default)
Menu_required_InventoryDefaulted(f) == f # "inventory"
Menu_required(f) == f \in MenuFields

\* Likewise for Booking; BookingDate = DateTimeField() is NOT NULL, no default.
\* (the variant: BookingDate declared null=True)
Booking_required_DateNullable(f) == f # "BookingDate"
Booking_required(f) == f \in BookingFields

\* The stored price is the literal quantized to decimal_places decimals.
\* (the variant keeps the digits and forgets to rescale them)
Quantize_Unscaled(v) == Dec(v.u, decimal_places)
Quantize(v) == Dec(v.u * Pow10(decimal_places - v.s), decimal_places)

FieldsOf(res) == IF res = "Menu" THEN MenuFields ELSE BookingFields

Required(res, f) == IF res = "Menu" THEN Menu_required(f) ELSE Booking_required(f)

FieldValid(res, f, v) ==
    CASE f = "title" -> Menu_title_valid(v)
      [] f = "price" -> Menu_price_valid(v)
      [] f = "inventory" -> Menu_inventory_valid(v)
      [] f = "name" -> Booking_name_valid(v)
      [] f = "no_of_guests" -> Booking_no_of_guests_valid(v)
      [] f = "BookingDate" -> Booking_BookingDate_valid(v)

\* payload value -> stored value
ToInternal(f, v) == IF f = "price" THEN Quantize(v) ELSE v

(* --------------------------- authorization ---------------------------- *)

Auth == {"anonymous", "authenticated"}

\* 401 when the first authentication class challenges, 403 otherwise
DeniedStatus == {401, 403}

\* views.BookingViewSet.permission_classes (the variant: none declared)
BookingViewSet_AllowAny == {}
BookingViewSet_permission_classes == {"IsAuthenticated"}

\* the Menu views declare no permission: open to every caller
\* (the variant: gated like the Booking view set)
MenuView_IsAuthenticated == {"IsAuthenticated"}
MenuView_permission_classes == {}

PermissionClasses(res) ==
    IF res = "Menu" THEN MenuView_permission_classes
    ELSE BookingViewSet_permission_classes

HasPermission(res, auth) ==
    "IsAuthenticated" \in PermissionClasses(res) => auth = "authenticated"

(* ------------------------------ handlers ------------------------------ *)

NoPayload == [f \in {} |-> 0]
NoId == 0

\* the fields of the payload that fail validation; a missing required field
\* fails unless the update is partial; unknown keys are ignored
Errors(res, payload, partial) ==
    {f \in FieldsOf(res) :
        IF f \in DOMAIN payload THEN ~FieldValid(res, f, payload[f])
        ELSE Required(res, f) /\ ~partial}

\* the instance after the validated fields are set on it
\* (the variant resets a title that was not supplied)
Updated_TitleReset(res, instance, payload) ==
    [f \in FieldsOf(res) |->
        IF f \in DOMAIN payload THEN ToInternal(f, payload[f])
        ELSE IF f = "title" THEN Text("", 0) ELSE instance[f]]
Updated(res, instance, payload) ==
    [f \in FieldsOf(res) |->
        IF f \in DOMAIN payload THEN ToInternal(f, payload[f]) ELSE instance[f]]

\* what a field holds when nothing was supplied for it (empty text, NULL)
Empty(f) ==
    CASE f \in {"title", "name"} -> Text("", 0)
      [] f = "price" -> Dec(0, decimal_places)
      [] f = "BookingDate" -> "NULL"
      [] OTHER -> 0

\* the instance a create builds from the validated fields
Created(res, payload) ==
    [f \in FieldsOf(res) |->
        IF f \in DOMAIN payload THEN ToInternal(f, payload[f]) ELSE Empty(f)]

\* Model.save(): the whole row is written
\* (the variant inserts but never overwrites)
Save_InsertOnly(store, id, instance) ==
    IF id \in DOMAIN store THEN store
    ELSE [i \in DOMAIN store \cup {id} |-> IF i = id THEN instance ELSE store[i]]
Save(store, id, instance) ==
    [i \in DOMAIN store \cup {id} |-> IF i = id THEN instance ELSE store[i]]

Remove(store, id) == [i \in DOMAIN store \ {id} |-> store[i]]

\* the auto-increment primary key: the counter, never a freed id
\* (the variant: one more than the largest live id)
NewId_MaxPlusOne(store, nextId) ==
    IF DOMAIN store = {} THEN 1
    ELSE (CHOOSE i \in DOMAIN store : \A j \in DOMAIN store : j <= i) + 1
NewId(store, nextId) == nextId

\* the JSON representation of a row
Serialize(id, row) == [id |-> id, data |-> row]

Response(status, body, store, nextId) ==
    [status |-> status, body |-> body, store |-> store, nextId |-> nextId]

\* One request: the permission check, then the handler of the operation.
View(res, op, id, payload, auth, denied, store, nextId) ==
    IF ~HasPermission(res, auth) THEN Response(denied, {}, store, nextId)
    ELSE IF op = "list" THEN
        Response(200, {Serialize(i, store[i]) : i \in DOMAIN store}, store, nextId)
    ELSE IF op = "create" THEN
        IF Errors(res, payload, FALSE) # {} THEN Response(400, {}, store, nextId)
        ELSE LET new == NewId(store, nextId)
                 row == Created(res, payload)
             IN  Response(201, {Serialize(new, row)}, Save(store, new, row), new + 1)
    ELSE IF id \notin DOMAIN store THEN Response(404, {}, store, nextId)
    ELSE IF op = "retrieve" THEN
        Response(200, {Serialize(id, store[id])}, store, nextId)
    ELSE IF op = "destroy" THEN Response(204, {}, Remove(store, id), nextId)
    ELSE IF Errors(res, payload, op = "partial_update") # {} THEN
        Response(400, {}, store, nextId)
    ELSE LET row == Updated(res, store[id], payload)
         IN  Response(200, {Serialize(id, row)}, Save(store, id, row), nextId)

(* ------------------------------- inputs ------------------------------- *)

Pizza == Text("Pizza", 5)
Burger == Text("Burger", 6)
LongText == Text("x256", 256)
Blank == Text("", 0)

PayloadOf(S, a, b, c) ==
    [f \in S |-> CASE f \in {"title", "name"} -> a
                   [] f \in {"price", "no_of_guests"} -> b
                   [] OTHER -> c]

\* complete Menu payloads: two valid ones, and one field out of bounds
MenuFull ==
    { PayloadOf(MenuFields, Pizza, Dec(999, 2), 0),
      PayloadOf(MenuFields, Burger, Dec(55, 1), 99999),
      PayloadOf(MenuFields, LongText, Dec(999, 2), 0),
      PayloadOf(MenuFields, Blank, Dec(999, 2), 0),
      PayloadOf(MenuFields, Pizza, Dec(5555, 3), 0),
      PayloadOf(MenuFields, Pizza, Dec(123456789, 0), 0),
      PayloadOf(MenuFields, Pizza, Dec(999, 2), 0 - 1),
      PayloadOf(MenuFields, Pizza, Dec(999, 2), 100000) }

\* Menu payloads with one field left out
MenuMissing ==
    { PayloadOf(MenuFields \ {"title"}, Pizza, Dec(999, 2), 0),
      PayloadOf(MenuFields \ {"price"}, Burger, Dec(999, 2), 0),
      PayloadOf(MenuFields \ {"inventory"}, Burger, Dec(55, 1), 0) }

\* the payloads of a PATCH
MenuPatch ==
    { PayloadOf({"inventory"}, Pizza, Dec(999, 2), 99999),
      PayloadOf({"inventory"}, Pizza, Dec(999, 2), 100000),
      PayloadOf({"price"}, Pizza, Dec(55, 1), 0),
      PayloadOf({"price", "inventory"}, Pizza, Dec(55, 1), 100000),
      [f \in {} |-> 0] }

MenuPayloads == MenuFull \cup MenuMissing \cup MenuPatch

Alice == Text("Alice", 5)
Bob == Text("Bob", 3)
When == "2026-01-01T19:00"

BookingFull ==
    { PayloadOf(BookingFields, Alice, 1, When),
      PayloadOf(BookingFields, Bob, 6, When),
      PayloadOf(BookingFields, Bob, 0, When),
      PayloadOf(BookingFields, Bob, 7, When),
      PayloadOf(BookingFields, Bob, 0 - 2, When),
      PayloadOf(BookingFields, LongText, 3, When),
      PayloadOf(BookingFields, Bob, 3, "tomorrow") }

BookingMissing ==
    { PayloadOf(BookingFields \ {"BookingDate"}, Bob, 3, When),
      PayloadOf(BookingFields \ {"no_of_guests"}, Bob, 3, When),
      PayloadOf(BookingFields \ {"name"}, Bob, 3, When) }

BookingPatch ==
    { PayloadOf({"no_of_guests"}, Bob, 6, When),
      PayloadOf({"no_of_guests"}, Bob, 7, When),
      PayloadOf({"name"}, Bob, 3, When),
      PayloadOf({"name", "no_of_guests"}, Bob, 0, When),
      [f \in {} |-> 0] }

BookingPayloads == BookingFull \cup BookingMissing \cup BookingPatch

MenuIds == 1..MaxMenuIds
BookingIds == 1..MaxBookingIds

Ops == {"list", "create", "retrieve", "update", "partial_update", "destroy"}

(* ------------------------------- state -------------------------------- *)

Request(res, op, id, payload, auth, r) ==
    [res |-> res, op |-> op, id |-> id, payload |-> payload, auth |-> auth,
     status |-> r.status, body |-> r.body]

NoRows == [i \in {} |-> 0]

Init ==
    /\ menu = NoRows
    /\ menuNextId = 1
    /\ menuDeleted = {}
    /\ booking = NoRows
    /\ bookingNextId = 1
    /\ last = [res |-> "none", op |-> "none", id |-> NoId, payload |-> NoPayload,
               auth |-> "anonymous", status |-> 0, body |-> {}]
    /\ inflight = [c \in {} |-> 0]

\* the status a refused caller may be answered with
Refusals(res, auth) == IF HasPermission(res, auth) THEN {401} ELSE DeniedStatus

\* a request to the Menu resource, served in one step
MenuRequest(op, id, payload, auth) ==
    \E denied \in Refusals("Menu", auth) :
        LET r == View("Menu", op, id, payload, auth, denied, menu, menuNextId)
        IN  /\ menu' = r.store
            /\ menuNextId' = r.nextId
            /\ menuDeleted' = menuDeleted \cup (DOMAIN menu \ DOMAIN r.store)
            /\ last' = Request("Menu", op, id, payload, auth, r)
            /\ UNCHANGED <<booking, bookingNextId, inflight>>

\* a request to the Booking resource, served in one step
BookingRequest(op, id, payload, auth) ==
    \E denied \in Refusals("Booking", auth) :
        LET r == View("Booking", op, id, payload, auth, denied, booking, bookingNextId)
        IN  /\ booking' = r.store
            /\ bookingNextId' = r.nextId
            /\ last' = Request("Booking", op, id, payload, auth, r)
            /\ UNCHANGED <<menu, menuNextId, menuDeleted, inflight>>

\* GET /menu/
ListMenuItems == \E a \in Auth : MenuRequest("list", NoId, NoPayload, a)

\* POST /menu/
CreateMenuItem ==
    /\ menuNextId <= MaxMenuIds
    /\ \E a \in Auth, p \in MenuFull \cup MenuMissing :
          MenuRequest("create", NoId, p, a)

\* GET /menu/<pk>/
RetrieveMenuItem ==
    \E a \in Auth, id \in MenuIds : MenuRequest("retrieve", id, NoPayload, a)

\* PUT /menu/<pk>/
UpdateMenuItem ==
    \E a \in Auth, id \in MenuIds, p \in MenuFull \cup MenuMissing :
        MenuRequest("update", id, p, a)

\* PATCH /menu/<pk>/
PartialUpdateMenuItem ==
    \E a \in Auth, id \in MenuIds, p \in MenuPatch :
        MenuRequest("partial_update", id, p, a)

\* DELETE /menu/<pk>/
DeleteMenuItem ==
    \E a \in Auth, id \in MenuIds : MenuRequest("destroy", id, NoPayload, a)

\* GET /Booking/tables/
ListBookings == \E a \in Auth : BookingRequest("list", NoId, NoPayload, a)

\* POST /Booking/tables/
CreateBooking ==
    /\ bookingNextId <= MaxBookingIds
    /\ \E a \in Auth, p \in BookingFull \cup BookingMissing :
          BookingRequest("create", NoId, p, a)

\* GET /Booking/tables/<pk>/
RetrieveBooking ==
    \E a \in Auth, id \in BookingIds : BookingRequest("retrieve", id, NoPayload, a)

\* PUT /Booking/tables/<pk>/
UpdateBooking ==
    \E a \in Auth, id \in BookingIds, p \in BookingFull \cup BookingMissing :
        BookingRequest("update", id, p, a)

\* PATCH /Booking/tables/<pk>/
PartialUpdateBooking ==
    \E a \in Auth, id \in BookingIds, p \in BookingPatch :
        BookingRequest("partial_update", id, p, a)

\* DELETE /Booking/tables/<pk>/
DeleteBooking ==
    \E a \in Auth, id \in BookingIds : BookingRequest("destroy", id, NoPayload, a)

MenuNext ==
    \/ ListMenuItems
    \/ CreateMenuItem
    \/ RetrieveMenuItem
    \/ UpdateMenuItem
    \/ PartialUpdateMenuItem
    \/ DeleteMenuItem

BookingNext ==
    \/ ListBookings
    \/ CreateBooking
    \/ RetrieveBooking
    \/ UpdateBooking
    \/ PartialUpdateBooking
    \/ DeleteBooking

\* the Menu resource alone
Spec == Init /\ [][MenuNext]_vars

\* the Booking resource alone
BookingSpec == Init /\ [][BookingNext]_vars

(* ---------------- both resources, on the boundary inputs --------------- *)

RowIds == 1..MaxRows

MenuProbe ==
    { PayloadOf(MenuFields, Pizza, Dec(999, 2), 0),
      PayloadOf(MenuFields, Burger, Dec(55, 1), 99999),
      PayloadOf(MenuFields, Pizza, Dec(999, 2), 0 - 1),
      PayloadOf(MenuFields, Pizza, Dec(999, 2), 100000) } \cup MenuMissing

MenuProbePatch ==
    { PayloadOf({"inventory"}, Pizza, Dec(999, 2), 99999),
      PayloadOf({"inventory"}, Pizza, Dec(999, 2), 0 - 1) }

BookingProbe ==
    { PayloadOf(BookingFields, Alice, 1, When),
      PayloadOf(BookingFields, Bob, 6, When),
      PayloadOf(BookingFields, Bob, 0, When),
      PayloadOf(BookingFields, Bob, 7, When) } \cup BookingMissing

BookingProbePatch ==
    { PayloadOf({"no_of_guests"}, Bob, 6, When),
      PayloadOf({"no_of_guests"}, Bob, 7, When) }

RowsCreated == (menuNextId - 1) + (bookingNextId - 1)

EveryCreateMenuItem ==
    /\ RowsCreated < MaxRows
    /\ \E p \in MenuProbe : MenuRequest("create", NoId, p, "anonymous")

EveryUpdateMenuItem ==
    \E id \in RowIds, p \in MenuProbe : MenuRequest("update", id, p, "anonymous")

EveryPartialUpdateMenuItem ==
    \E id \in RowIds, p \in MenuProbePatch :
        MenuRequest("partial_update", id, p, "anonymous")

EveryDeleteMenuItem ==
    \E id \in RowIds : MenuRequest("destroy", id, NoPayload, "anonymous")

EveryCreateBooking ==
    /\ RowsCreated < MaxRows
    /\ \E p \in BookingProbe : BookingRequest("create", NoId, p, "authenticated")

EveryUpdateBooking ==
    \E id \in RowIds, p \in BookingProbe :
        BookingRequest("update", id, p, "authenticated")

EveryPartialUpdateBooking ==
    \E id \in RowIds, p \in BookingProbePatch :
        BookingRequest("partial_update", id, p, "authenticated")

EveryDeleteBooking ==
    \E id \in RowIds : BookingRequest("destroy", id, NoPayload, "authenticated")

EveryNext ==
    \/ EveryCreateMenuItem
    \/ EveryUpdateMenuItem
    \/ EveryPartialUpdateMenuItem
    \/ EveryDeleteMenuItem
    \/ EveryCreateBooking
    \/ EveryUpdateBooking
    \/ EveryPartialUpdateBooking
    \/ EveryDeleteBooking

\* the writes of both resources, interleaved
EverySpec == Init /\ [][EveryNext]_vars

(* --------------------- two writes in flight at once -------------------- *)

Clients == {"c1", "c2"}

\* the table the two writers find
ConcMenu ==
    Save(Save(NoRows, 1, Created("Menu", PayloadOf(MenuFields, Pizza, Dec(999, 2), 0))),
         2, Created("Menu", PayloadOf(MenuFields, Burger, Dec(55, 1), 99999)))

ConcInit ==
    /\ menu = ConcMenu
    /\ menuNextId = 3
    /\ menuDeleted = {}
    /\ booking = NoRows
    /\ bookingNextId = 1
    /\ last = [res |-> "none", op |-> "none", id |-> NoId, payload |-> NoPayload,
               auth |-> "anonymous", status |-> 0, body |-> {}]
    /\ inflight = [c \in {} |-> 0]

\* a write in flight: the request, the instance in memory, where it stands
\* ("save": read and validated, not yet written) and the response status
Write(op, id, payload, instance, pc, status) ==
    [op |-> op, id |-> id, payload |-> payload, instance |-> instance,
     pc |-> pc, status |-> status]

\* the first half of an update: get_object() reads the row, the serializer
\* validates the payload and sets the validated fields on the instance
BeginWrite(c, op, id, payload) ==
    /\ c \notin DOMAIN inflight
    /\ LET found == id \in DOMAIN menu
           bad == Errors("Menu", payload, op = "partial_update") # {}
           w == IF ~found THEN
                    Write(op, id, payload, Created("Menu", NoPayload), "done", 404)
                ELSE IF bad THEN Write(op, id, payload, menu[id], "done", 400)
                ELSE Write(op, id, payload, Updated("Menu", menu[id], payload),
                           "save", 200)
       IN  inflight' = [d \in DOMAIN inflight \cup {c} |->
                           IF d = c THEN w ELSE inflight[d]]
    /\ UNCHANGED <<menu, menuNextId, menuDeleted, booking, bookingNextId, last>>

\* the second half: save() writes the instance, the response is 200
SaveWrite(c) ==
    /\ c \in DOMAIN inflight
    /\ inflight[c].pc = "save"
    /\ menu' = Save(menu, inflight[c].id, inflight[c].instance)
    /\ inflight' = [inflight EXCEPT ![c].pc = "done"]
    /\ UNCHANGED <<menuNextId, menuDeleted, booking, bookingNextId, last>>

ConcNext ==
    \/ \E c \in Clients, id \in MenuIds, p \in MenuFull \cup MenuMissing :
          BeginWrite(c, "update", id, p)
    \/ \E c \in Clients, id \in MenuIds, p \in MenuPatch :
          BeginWrite(c, "partial_update", id, p)
    \/ \E c \in Clients : SaveWrite(c)

\* two clients, one write each, interleaved at the table
ConcSpec == ConcInit /\ [][ConcNext]_vars

(* ------------------------------ the claims ----------------------------- *)

\* The bounds as the specification document states them.
DocFieldOk(f, v) ==
    CASE f \in {"title", "name"} -> v.len >= 1 /\ v.len <= 255
      [] f = "price" -> v.s <= 2 /\ TotalDigits(v) <= 10 /\ WholeDigits(v) <= 8
      [] f = "inventory" -> v >= 0 /\ v <= 99999
      [] f = "no_of_guests" -> v >= 1 /\ v <= 6
      [] f = "BookingDate" -> v \in DateTimes

DocPayloadOk(res, p) ==
    /\ FieldsOf(res) \subseteq DOMAIN p
    /\ \A f \in FieldsOf(res) : DocFieldOk(f, p[f])

\* a stored value equals a submitted one (a price: as a number)
FieldEq(f, stored, given) ==
    IF f = "price" THEN DecEq(stored, given) ELSE stored = given

Denied(status) == status = 401 \/ status = 403

\* C1: a Booking operation called with no credential is answered 401 or 403
\* and leaves the Booking table and its id counter as they were, whatever the
\* operation, the id (present or not) and the payload (valid or not).
C1_AnonymousBookingRefused ==
    [][ (last'.res = "Booking" /\ last'.auth = "anonymous") =>
            /\ Denied(last'.status)
            /\ last'.body = {}
            /\ booking' = booking
            /\ bookingNextId' = bookingNextId ]_vars

\* an anonymous PUT of an invalid payload to an id that does not exist, with
\* rows in the table: refused, not 404 and not 400
C1_Witness ==
    /\ last.res = "Booking" /\ last.auth = "anonymous" /\ last.op = "update"
    /\ last.id \notin DOMAIN booking
    /\ ~DocPayloadOk("Booking", last.payload)
    /\ Denied(last.status)
    /\ DOMAIN booking # {}

\* C2: a create of a valid Menu payload is answered 201 with an id that was
\* never used, adds exactly that row and changes no other, and a retrieve of
\* the id then returns 200 with the title, price and inventory submitted.
C2_CreateThenRetrieve ==
    [][ (last'.res = "Menu" /\ last'.op = "create"
            /\ DocPayloadOk("Menu", last'.payload)) =>
            /\ last'.status = 201
            /\ Cardinality(last'.body) = 1
            /\ \A b \in last'.body :
                /\ b.id \notin DOMAIN menu
                /\ b.id \notin menuDeleted
                /\ DOMAIN menu' = DOMAIN menu \cup {b.id}
                /\ Cardinality(DOMAIN menu') = Cardinality(DOMAIN menu) + 1
                /\ \A i \in DOMAIN menu : menu'[i] = menu[i]
                /\ \A a \in Auth, d \in DeniedStatus :
                      LET r == View("Menu", "retrieve", b.id, NoPayload, a, d,
                                    menu', menuNextId')
                      IN  /\ r.status = 200
                          /\ Cardinality(r.body) = 1
                          /\ \A g \in r.body :
                                /\ g.id = b.id
                                /\ \A f \in MenuFields :
                                      FieldEq(f, g.data[f], last'.payload[f]) ]_vars

\* the second row was just created from a price written with one decimal
C2_Witness ==
    /\ last.res = "Menu" /\ last.op = "create" /\ last.status = 201
    /\ last.payload["price"] = Dec(55, 1)
    /\ Cardinality(DOMAIN menu) = 2

\* C3: an authenticated create of a Booking whose no_of_guests is below 1 or
\* above 6 is answered 400 and leaves the Booking table as it was.
C3_GuestsOutOfRangeRejected ==
    [][ (/\ last'.res = "Booking" /\ last'.op = "create"
         /\ last'.auth = "authenticated"
         /\ "no_of_guests" \in DOMAIN last'.payload
         /\ (last'.payload["no_of_guests"] < 1 \/ last'.payload["no_of_guests"] > 6)) =>
            /\ last'.status = 400
            /\ booking' = booking
            /\ bookingNextId' = bookingNextId ]_vars

\* seven guests, everything else valid, refused with a row already stored
C3_Witness ==
    /\ last.res = "Booking" /\ last.op = "create" /\ last.auth = "authenticated"
    /\ "no_of_guests" \in DOMAIN last.payload
    /\ last.payload["no_of_guests"] = 7
    /\ \A f \in {"name", "BookingDate"} :
          f \in DOMAIN last.payload /\ DocFieldOk(f, last.payload[f])
    /\ last.status = 400
    /\ DOMAIN booking # {}

\* C4: a delete of an existing Menu id is answered 204 and removes that row
\* and no other; a delete of an absent id is answered 404 and changes nothing;
\* an id once deleted is never live again and every retrieve of it is 404.
C4_DeleteIsFinal ==
    [][ /\ (last'.res = "Menu" /\ last'.op = "destroy" /\ last'.id \in DOMAIN menu) =>
              /\ last'.status = 204
              /\ last'.body = {}
              /\ DOMAIN menu' = DOMAIN menu \ {last'.id}
              /\ \A i \in DOMAIN menu' : menu'[i] = menu[i]
        /\ (last'.res = "Menu" /\ last'.op = "destroy" /\ last'.id \notin DOMAIN menu) =>
              /\ last'.status = 404
              /\ menu' = menu
        /\ \A i \in menuDeleted : i \notin DOMAIN menu' /\ i \in menuDeleted'
        /\ (last'.res = "Menu" /\ last'.op = "retrieve" /\ last'.id \in menuDeleted') =>
              last'.status = 404 ]_vars

\* a retrieve of a deleted id is 404 after a later create took another id
C4_Witness ==
    /\ last.res = "Menu" /\ last.op = "retrieve" /\ last.status = 404
    /\ last.id \in menuDeleted
    /\ \E j \in DOMAIN menu : j > last.id

\* C5: a PATCH of an existing Menu id whose supplied fields are valid is
\* answered 200, sets the supplied fields to the supplied values and leaves
\* the other fields, the id and every other row as they were; with an invalid
\* supplied field it is answered 400 and nothing changes.
C5_PartialUpdateFrame ==
    [][ (last'.res = "Menu" /\ last'.op = "partial_update"
            /\ last'.id \in DOMAIN menu) =>
          LET p == last'.payload
              id == last'.id
          IN  IF \A f \in DOMAIN p : DocFieldOk(f, p[f])
              THEN /\ last'.status = 200
                   /\ DOMAIN menu' = DOMAIN menu
                   /\ \A f \in MenuFields :
                         IF f \in DOMAIN p THEN FieldEq(f, menu'[id][f], p[f])
                         ELSE menu'[id][f] = menu[id][f]
                   /\ \A i \in DOMAIN menu \ {id} : menu'[i] = menu[i]
                   /\ last'.body = {Serialize(id, menu'[id])}
                   /\ menuNextId' = menuNextId
              ELSE /\ last'.status = 400
                   /\ menu' = menu
                   /\ menuNextId' = menuNextId ]_vars

\* PATCH {inventory: 99999} on the Pizza row, with another row in the table
C5_Witness ==
    /\ last.res = "Menu" /\ last.op = "partial_update" /\ last.status = 200
    /\ DOMAIN last.payload = {"inventory"}
    /\ last.id \in DOMAIN menu
    /\ menu[last.id]["title"] = Pizza
    /\ menu[last.id]["inventory"] = 99999
    /\ Cardinality(DOMAIN menu) = 2

PayloadsFor(op) ==
    IF op \in {"create", "update", "partial_update"} THEN MenuPayloads
    ELSE {NoPayload}

\* C8: in every state, every Menu operation with every id and payload gives
\* the same status, body and table to an anonymous caller as to an
\* authenticated one, and never 401 or 403; an anonymous list is answered 200
\* with one entry per row.
C8_MenuNotGated ==
    /\ last.res = "Menu" => ~Denied(last.status)
    /\ \A op \in Ops, id \in MenuIds :
          \A p \in PayloadsFor(op) :
              LET user == View("Menu", op, id, p, "authenticated", 401, menu, menuNextId)
              IN  \A d \in DeniedStatus :
                      LET anon == View("Menu", op, id, p, "anonymous", d, menu,
                                       menuNextId)
                      IN  /\ anon.status = user.status
                          /\ anon.body = user.body
                          /\ anon.store = user.store
                          /\ anon.nextId = user.nextId
                          /\ ~Denied(anon.status)
                          /\ op = "list" =>
                                /\ anon.status = 200
                                /\ Cardinality(anon.body) = Cardinality(DOMAIN menu)

\* an anonymous list of the table, empty again after rows came and went
C8_Witness ==
    /\ last.res = "Menu" /\ last.op = "list" /\ last.auth = "anonymous"
    /\ last.status = 200 /\ last.body = {}
    /\ menu = NoRows /\ menuDeleted # {}

\* the table after write w alone, served in one step
Alone(w, store) ==
    View("Menu", w.op, w.id, w.payload, "anonymous", 401, store, menuNextId)

Serial(a, b) == Alone(b, Alone(a, ConcMenu).store).store

Done ==
    /\ DOMAIN inflight = Clients
    /\ \A c \in Clients : inflight[c].pc = "done"

NotRejectedByTheOther ==
    \A c \in Clients : inflight[c].status = Alone(inflight[c], ConcMenu).status

Writers(id) == {c \in Clients : inflight[c].id = id /\ inflight[c].status = 200}

C10_StoredRowsInBounds ==
    [][ /\ \A i \in DOMAIN menu' :
              menu'[i]["inventory"] >= 0 /\ menu'[i]["inventory"] <= 99999
        /\ \A i \in DOMAIN booking' :
              booking'[i]["no_of_guests"] >= 1 /\ booking'[i]["no_of_guests"] <= 6
        /\ (last'.op = "create" /\ last'.status = 201) =>
              LET old == IF last'.res = "Menu" THEN menu ELSE booking
                  new == IF last'.res = "Menu" THEN menu' ELSE booking'
              IN  /\ Cardinality(DOMAIN new) = Cardinality(DOMAIN old) + 1
                  /\ \A b \in last'.body : b.id \notin DOMAIN old
        /\ last'.op # "create" =>
              /\ DOMAIN menu' \subseteq DOMAIN menu
              /\ DOMAIN booking' \subseteq DOMAIN booking ]_vars

\* both tables hold rows at the edges of the ranges, after refused attempts
C10_Witness ==
    /\ \E i \in DOMAIN menu : menu[i]["inventory"] = 99999
    /\ \E i \in DOMAIN booking : booking[i]["no_of_guests"] = 6
    /\ last.status = 400

====
